---------------------------- MODULE Spec2Model ----------------------------
(***************************************************************************)
(* Validate-then-aggregate pipeline of CarsProjects.py and                 *)
(* EventsProject.py: the two validators, the two entity factories, the two *)
(* collection loaders and the aggregation services.                        *)
(*                                                                         *)
(* Python strings are sequences of one-character strings, so that split,   *)
(* strip, regex matching, strptime and strftime are computed on the text.  *)
(* JSON values are tagged records [t, v]; t = "absent" stands for a key    *)
(* that is not in the dict.                                                *)
(***************************************************************************)
EXTENDS Integers, Sequences, FiniteSets, TLC

VARIABLES
    prog,       \* "cars" | "events": which pipeline this run is
    stop,       \* stop_loading_if_error of the file reader
    sep,        \* EventValidator.separator
    allowPast,  \* EventValidator.allow_past_dates
    now,        \* datetime.now(), read by EventValidator.validate
    source,     \* what read() returned for the current load
    idx,        \* position of the loader's for loop in source
    pc,         \* "iter" | "checked" | "logged" | "loaded" | "raised"
    cur,        \* (is_valid, errors) of the record at idx
    acc,        \* the loader's local list (cars / events) being built
    held,       \* the collection the service holds (CarsService.cars / EventService.events)
    log,        \* logging.warning calls so far: [rec, field, msg]
    exc,        \* the exception a load ended with
    outcome,    \* per record of the current load: what validate said and how the loop left it
    result,     \* what the last service operation returned or raised
    written,    \* lines the file writer received
    saved,      \* the held events at the time of save_sorted_events
    gen         \* 1: load of the input file, 2: re-load of the written file

vars == <<prog, stop, sep, allowPast, now, source, idx, pc, cur, acc, held,
          log, exc, outcome, result, written, saved, gen>>

(***************************************************************************)
(* Bounds of the model.                                                    *)
(***************************************************************************)
MaxRecords == 3
MaxNow == 3

(***************************************************************************)
(* Text.                                                                   *)
(***************************************************************************)
\* the characters of the model, in code-point order
Chars == <<" ", "#", ",", "0", "1", "2", "3", ";",
           "A", "B", "C", "D", "E", "G", "H", "I", "K", "L", "N", "R", "T", "W", "X", "Y",
           "a", "x">>

Ord(c) == CHOOSE i \in 1..Len(Chars) : Chars[i] = c

Upper == {"A", "B", "C", "D", "E", "G", "H", "I", "K", "L", "N", "R", "T", "W", "X", "Y"}
Lower == {"a", "x"}
Digit == {"0", "1", "2", "3"}
White == {" "}

RECURSIVE StrLess(_, _)
\* Python's str < str
StrLess(s, t) ==
    IF t = <<>> THEN FALSE
    ELSE IF s = <<>> THEN TRUE
    ELSE IF Head(s) # Head(t) THEN Ord(Head(s)) < Ord(Head(t))
    ELSE StrLess(Tail(s), Tail(t))

RECURSIVE LStrip(_)
LStrip(s) == IF s # <<>> /\ Head(s) \in White THEN LStrip(Tail(s)) ELSE s

RECURSIVE RStrip(_)
RStrip(s) ==
    IF s # <<>> /\ s[Len(s)] \in White THEN RStrip(SubSeq(s, 1, Len(s) - 1)) ELSE s

\* str.strip()
Strip(s) == RStrip(LStrip(s))

RECURSIVE SplitFrom(_, _, _)
SplitFrom(s, d, part) ==
    IF s = <<>> THEN <<part>>
    ELSE IF Head(s) = d THEN <<part>> \o SplitFrom(Tail(s), d, <<>>)
    ELSE SplitFrom(Tail(s), d, Append(part, Head(s)))

\* str.split(d) for a one-character delimiter d
Split(s, d) == SplitFrom(s, d, <<>>)

\* re.match(r'^[A-Z\s]+$', s)
MatchUpperWs(s) == s # <<>> /\ \A i \in 1..Len(s) : s[i] \in Upper \cup White


(***************************************************************************)
(* JSON values and raw vehicle records.                                    *)
(***************************************************************************)
Absent == [t |-> "absent", v |-> 0]
JStr(s) == [t |-> "str", v |-> s]
JInt(n) == [t |-> "int", v |-> n]
JList(l) == [t |-> "list", v |-> l]

Has(data, key) == data[key].t # "absent"

\* class CarColor(Enum): the member names
GREEN == <<"G", "R", "E", "E", "N">>
BLACK == <<"B", "L", "A", "C", "K">>
WHITE == <<"W", "H", "I", "T", "E">>
RED == <<"R", "E", "D">>
CarColor == {GREEN, BLACK, WHITE, RED}

(***************************************************************************)
(* CarValidator.validate.  A validation in progress is either the errors   *)
(* dict so far (in insertion order) or the exception that ended it.        *)
(***************************************************************************)
Errs(errors) == [raised |-> FALSE, exc |-> "", errors |-> errors]
Raise(e) == [raised |-> TRUE, exc |-> e, errors |-> <<>>]

\* errors |= {field: [msg]} where the f-string msg reads data[k] for k in reads
AddError(data, st, field, msg, reads) ==
    IF \E k \in reads : ~Has(data, k) THEN Raise("KeyError")
    ELSE Errs(Append(st.errors, [field |-> field, msg |-> msg]))

CheckModel(data, st) ==
    IF st.raised THEN st
    ELSE IF ~Has(data, "model") THEN AddError(data, st, "model", "not found", {})
    ELSE IF data.model.t # "str" THEN Raise("TypeError")
    ELSE IF ~MatchUpperWs(data.model.v)
         THEN AddError(data, st, "model", "does not match regex", {"model"})
    ELSE st

\* a variant that takes a price of 0
CheckPriceNonNegative(data, st) ==
    IF st.raised THEN st
    ELSE IF ~Has(data, "price") THEN AddError(data, st, "price", "not found", {"model"})
    ELSE IF data.price.t # "int"
         THEN AddError(data, st, "price", "is not a number", {"model", "price"})
    ELSE IF data.price.v < 0
         THEN AddError(data, st, "price", "must be greater than 0", {"model"})
    ELSE st

CheckPrice(data, st) ==
    IF st.raised THEN st
    ELSE IF ~Has(data, "price") THEN AddError(data, st, "price", "not found", {"model"})
    ELSE IF data.price.t # "int"
         THEN AddError(data, st, "price", "is not a number", {"model", "price"})
    ELSE IF data.price.v <= 0
         THEN AddError(data, st, "price", "must be greater than 0", {"model"})
    ELSE st

CheckColor(data, st) ==
    IF st.raised THEN st
    ELSE IF ~Has(data, "color") THEN AddError(data, st, "color", "not found", {"model"})
    ELSE IF data.color.t = "list" THEN Raise("TypeError")
    ELSE IF ~(data.color.t = "str" /\ data.color.v \in CarColor)
         THEN AddError(data, st, "color", "not found color", {"color", "model"})
    ELSE st

CheckMileage(data, st) ==
    IF st.raised THEN st
    ELSE IF ~Has(data, "mileage") THEN AddError(data, st, "mileage", "not found", {"model"})
    ELSE IF data.mileage.t # "int"
         THEN AddError(data, st, "mileage", "is not a number", {"model", "price"})
    ELSE IF data.mileage.v <= 0
         THEN AddError(data, st, "mileage", "must be greater than 0", {"model"})
    ELSE st

\* what a for loop over a components value yields: the items of a list, the
\* characters of a str
Elements(components) ==
    IF components.t = "str"
    THEN [i \in 1..Len(components.v) |-> JStr(<<components.v[i]>>)]
    ELSE components.v

\* isinstance(comp, str) and re.match(self.collection_regex, comp)
ComponentOk(comp) == comp.t = "str" /\ MatchUpperWs(comp.v)

CheckComponents(data, st) ==
    IF st.raised THEN st
    ELSE IF ~Has(data, "components")
         THEN AddError(data, st, "components", "not found", {"model"})
    ELSE IF data.components.t = "int" THEN Raise("TypeError")
    ELSE IF ~(\A i \in 1..Len(Elements(data.components)) :
                 ComponentOk(Elements(data.components)[i]))
         THEN AddError(data, st, "components", "Invalid components", {"model", "components"})
    ELSE st

CarValidate(data) ==
    LET st == CheckComponents(data,
                  CheckMileage(data,
                      CheckColor(data,
                          CheckPrice(data,
                              CheckModel(data, Errs(<<>>))))))
    IN  [raised |-> st.raised, exc |-> st.exc,
         valid |-> ~st.raised /\ Len(st.errors) = 0, errors |-> st.errors]

\* the keys of an errors dict
Keys(errors) == {errors[i].field : i \in 1..Len(errors)}

(***************************************************************************)
(* Car and Car.from_dict.                                                  *)
(***************************************************************************)
CarFromDict(data) ==
    IF \E k \in {"model", "price", "color", "mileage", "components"} : ~Has(data, k)
        THEN [raised |-> TRUE, exc |-> "KeyError"]
    ELSE IF data.color.t = "list" THEN [raised |-> TRUE, exc |-> "TypeError"]
    ELSE IF ~(data.color.t = "str" /\ data.color.v \in CarColor)
        THEN [raised |-> TRUE, exc |-> "KeyError"]
    ELSE [raised |-> FALSE, exc |-> "",
          car |-> [model |-> data.model, price |-> data.price, color |-> data.color.v,
                   mileage |-> data.mileage, components |-> data.components]]


(***************************************************************************)
(* Dates.  The configured date_format is a day number: strptime accepts    *)
(* one or two digits (1..31) and nothing else around them, strftime writes *)
(* two digits.  A datetime is the day number.                              *)
(***************************************************************************)
DigitVal(c) == Ord(c) - Ord("0")

\* datetime.strptime(s, date_format); ok = FALSE is its ValueError
StrPTime(s) ==
    IF Len(s) \in {1, 2} /\ \A i \in 1..Len(s) : s[i] \in Digit
    THEN LET n == IF Len(s) = 1 THEN DigitVal(s[1])
                  ELSE 10 * DigitVal(s[1]) + DigitVal(s[2])
         IN  IF n \in 1..31 THEN [ok |-> TRUE, date |-> n] ELSE [ok |-> FALSE, date |-> 0]
    ELSE [ok |-> FALSE, date |-> 0]

\* date.strftime(date_format)
StrFTime(d) == <<Chars[Ord("0") + (d \div 10)], Chars[Ord("0") + (d % 10)]>>

(***************************************************************************)
(* TextFileReader.read and TextFileWriter.write followed by read.          *)
(***************************************************************************)
TextRead(lines) == [i \in 1..Len(lines) |-> Strip(lines[i])]

(***************************************************************************)
(* EventValidator.validate.                                                *)
(***************************************************************************)
\* re.match(event_name_regex, s) for the regex of main()
MatchEventName(s) ==
    s # <<>> /\ \A i \in 1..Len(s) : s[i] \in Upper \cup Lower \cup Digit \cup {" ", ","}

NameErrors(event_name) ==
    IF event_name = <<>> THEN <<[field |-> "event_name", msg |-> "Empty event name"]>>
    ELSE IF ~MatchEventName(event_name)
         THEN <<[field |-> "event_name", msg |-> "does not match regex"]>>
    ELSE <<>>

DateErrors(date_str, allow_past_dates, clock) ==
    IF date_str = <<>> THEN <<[field |-> "date", msg |-> "Empty date"]>>
    ELSE LET p == StrPTime(date_str)
         IN  IF ~p.ok THEN <<[field |-> "date", msg |-> "not in the format"]>>
             ELSE IF ~allow_past_dates /\ p.date < clock
                  THEN <<[field |-> "date", msg |-> "is in the past"]>>
             ELSE <<>>

EventValidate(line_str, separator, allow_past_dates, clock) ==
    LET parts == Split(line_str, separator)
        errors == IF Len(parts) # 2
                  THEN <<[field |-> "format", msg |-> "Invalid format"]>>
                  ELSE NameErrors(Strip(parts[1]))
                       \o DateErrors(Strip(parts[2]), allow_past_dates, clock)
    IN  [raised |-> FALSE, exc |-> "", valid |-> Len(errors) = 0, errors |-> errors]

(***************************************************************************)
(* Event and Event.from_str, called by the loader with the default         *)
(* separator.                                                              *)
(***************************************************************************)
DefaultSeparator == ";"

EventFromStr(data, separator) ==
    LET parts == Split(data, separator)
    IN  IF Len(parts) # 2 THEN [raised |-> TRUE, exc |-> "ValueError"]
        ELSE LET p == StrPTime(parts[2])
             IN  IF ~p.ok THEN [raised |-> TRUE, exc |-> "ValueError"]
                 ELSE [raised |-> FALSE, exc |-> "",
                       event |-> [event_name |-> parts[1], date |-> p.date]]

RECURSIVE InsertByDateBeforeEqual(_, _)
\* an unstable variant: e goes before the elements of its own date
InsertByDateBeforeEqual(sorted, e) ==
    IF sorted = <<>> THEN <<e>>
    ELSE IF e.date <= Head(sorted).date THEN <<e>> \o sorted
    ELSE <<Head(sorted)>> \o InsertByDateBeforeEqual(Tail(sorted), e)

RECURSIVE InsertByDate(_, _)
\* e goes after every element whose date is not greater
InsertByDate(sorted, e) ==
    IF sorted = <<>> THEN <<e>>
    ELSE IF e.date < Head(sorted).date THEN <<e>> \o sorted
    ELSE <<Head(sorted)>> \o InsertByDate(Tail(sorted), e)

RECURSIVE SortFrom(_, _)
SortFrom(events, sorted) ==
    IF events = <<>> THEN sorted
    ELSE SortFrom(Tail(events), InsertByDate(sorted, Head(events)))

\* sorted(events, key=lambda event: event.date)
SortedByDate(events) == SortFrom(events, <<>>)


(***************************************************************************)
(* sorted(items, key=..., reverse=...) and dicts.  A dict is the sequence   *)
(* of its [k, v] items in insertion order.                                 *)
(***************************************************************************)
\* a < b for two sort keys of one type (tagged values)
KeyLess(a, b) == IF a.t = "int" THEN a.v < b.v ELSE StrLess(a.v, b.v)

RECURSIVE InsertKeyed(_, _, _)
\* stable: e goes before the first element that must follow it
InsertKeyed(sorted, e, descending) ==
    IF sorted = <<>> THEN <<e>>
    ELSE IF (IF descending THEN KeyLess(Head(sorted).key, e.key)
                           ELSE KeyLess(e.key, Head(sorted).key))
         THEN <<e>> \o sorted
    ELSE <<Head(sorted)>> \o InsertKeyed(Tail(sorted), e, descending)

RECURSIVE SortKeyedFrom(_, _, _)
SortKeyedFrom(keyed, sorted, descending) ==
    IF keyed = <<>> THEN sorted
    ELSE SortKeyedFrom(Tail(keyed), InsertKeyed(sorted, Head(keyed), descending), descending)

\* sorted() of [key, item] pairs by key; the items of the result
SortKeyed(keyed, descending) ==
    LET r == SortKeyedFrom(keyed, <<>>, descending)
    IN  [i \in 1..Len(r) |-> r[i].item]

DictHas(d, k) == \E i \in 1..Len(d) : d[i].k = k
DictGet(d, k) == d[CHOOSE i \in 1..Len(d) : d[i].k = k].v
\* d[k] = v
DictSet(d, k, v) ==
    IF DictHas(d, k) THEN [i \in 1..Len(d) |-> IF d[i].k = k THEN [k |-> k, v |-> v] ELSE d[i]]
    ELSE Append(d, [k |-> k, v |-> v])

RECURSIVE SumSeq(_)
SumSeq(ns) == IF ns = <<>> THEN 0 ELSE Head(ns) + SumSeq(Tail(ns))

MinOf(ns) == CHOOSE n \in {ns[i] : i \in 1..Len(ns)} : \A j \in 1..Len(ns) : n <= ns[j]
MaxOf(ns) == CHOOSE n \in {ns[i] : i \in 1..Len(ns)} : \A j \in 1..Len(ns) : n >= ns[j]

(***************************************************************************)
(* CarsService: what each operation returns, or that it raises.            *)
(***************************************************************************)
Returned(value) == [raised |-> FALSE, value |-> value]
Raised(e) == [raised |-> TRUE, value |-> e]
\* the last call: the method, its arguments, and how it ended
Call(op, args, out) == [op |-> op, args |-> args, raised |-> out.raised, value |-> out.value]

\* the fn_sorted lambdas of main(): by model, color name, price, mileage
SortKey(car, by) ==
    CASE by = "model" -> car.model
      [] by = "color" -> JStr(car.color)
      [] by = "price" -> car.price
      [] by = "mileage" -> car.mileage

GetSortedCars(cars, by, descending) ==
    SortKeyed([i \in 1..Len(cars) |-> [key |-> SortKey(cars[i], by), item |-> cars[i]]],
              descending)

\* mileage is the argument as passed: a tagged value
GetCarsMileageThan(cars, mileage) ==
    IF mileage.t # "int" \/ mileage.v < 0 THEN Raised("ValueError")
    ELSE Returned(SelectSeq(cars, LAMBDA car : car.mileage.v > mileage.v))

RECURSIVE CountFrom(_, _)
\* Counter(names)
CountFrom(names, counts) ==
    IF names = <<>> THEN counts
    ELSE CountFrom(Tail(names),
                   DictSet(counts, Head(names),
                           IF DictHas(counts, Head(names))
                           THEN DictGet(counts, Head(names)) + 1 ELSE 1))

\* a variant that sorts ascending and reverses the result for descending
GetCountCarsByColorReversed(cars, descending) ==
    LET counts == CountFrom([i \in 1..Len(cars) |-> cars[i].color], <<>>)
        up == SortKeyed([i \in 1..Len(counts) |-> [key |-> JInt(counts[i].v), item |-> counts[i]]],
                        FALSE)
    IN  IF descending THEN [i \in 1..Len(up) |-> up[Len(up) + 1 - i]] ELSE up

GetCountCarsByColor(cars, descending) ==
    LET counts == CountFrom([i \in 1..Len(cars) |-> cars[i].color], <<>>)
    IN  SortKeyed([i \in 1..Len(counts) |-> [key |-> JInt(counts[i].v), item |-> counts[i]]],
                  descending)

RECURSIVE MostExpensiveFromFirstOnly(_, _)
\* a variant that keeps only the first vehicle of a tied maximum
MostExpensiveFromFirstOnly(cars, d) ==
    IF cars = <<>> THEN d
    ELSE LET car == Head(cars)
             have == IF DictHas(d, car.model.v) THEN DictGet(d, car.model.v) ELSE <<>>
             next == IF have = <<>> THEN <<car>>
                     ELSE IF car.price.v > have[1].price.v THEN <<car>>
                     ELSE have
         IN  MostExpensiveFromFirstOnly(Tail(cars), DictSet(d, car.model.v, next))

RECURSIVE MostExpensiveFrom(_, _)
\* the for loop of get_model_cars_most_expensive over cars, d the defaultdict
MostExpensiveFrom(cars, d) ==
    IF cars = <<>> THEN d
    ELSE LET car == Head(cars)
             have == IF DictHas(d, car.model.v) THEN DictGet(d, car.model.v) ELSE <<>>
             next == IF have = <<>> THEN <<car>>
                     ELSE IF car.price.v > have[1].price.v THEN <<car>>
                     ELSE IF car.price.v = have[1].price.v THEN Append(have, car)
                     ELSE have
         IN  MostExpensiveFrom(Tail(cars), DictSet(d, car.model.v, next))

GetModelCarsMostExpensive(cars, descending) ==
    LET d == MostExpensiveFrom(cars, <<>>)
    IN  SortKeyed([i \in 1..Len(d) |-> [key |-> JStr(d[i].k), item |-> d[i]]], descending)

\* an average is the fraction num / den
GetStatisticPriceMileage(cars) ==
    IF cars = <<>>
    THEN [price |-> [avg |-> [num |-> 0, den |-> 1], min |-> 0, max |-> 0],
          mileage |-> [avg |-> [num |-> 0, den |-> 1], min |-> 0, max |-> 0]]
    ELSE LET prices == [i \in 1..Len(cars) |-> cars[i].price.v]
             milleages == [i \in 1..Len(cars) |-> cars[i].mileage.v]
         IN  [price |-> [avg |-> [num |-> SumSeq(prices), den |-> Len(prices)],
                         min |-> MinOf(prices), max |-> MaxOf(prices)],
              mileage |-> [avg |-> [num |-> SumSeq(milleages), den |-> Len(milleages)],
                           min |-> MinOf(milleages), max |-> MaxOf(milleages)]]

GetCarsMostExpensive(cars) ==
    IF cars = <<>> THEN Raised("ValueError")
    ELSE LET max_price == MaxOf([i \in 1..Len(cars) |-> cars[i].price.v])
         IN  Returned(SelectSeq(cars, LAMBDA car : car.price.v = max_price))

\* car.components.sort(reverse=descending)
SortComponents(components, descending) ==
    JList(SortKeyed([i \in 1..Len(components.v) |->
                        [key |-> components.v[i], item |-> components.v[i]]], descending))

RECURSIVE SortedCollectionFrom(_, _, _)
\* the for loop of get_sorted_collection: a str has no sort(), and the cars
\* before it have been sorted by then
SortedCollectionFrom(cars, descending, done) ==
    IF cars = <<>> THEN [raised |-> FALSE, cars |-> done]
    ELSE IF Head(cars).components.t # "list" THEN [raised |-> TRUE, cars |-> done \o cars]
    ELSE SortedCollectionFrom(Tail(cars), descending,
             Append(done, [Head(cars) EXCEPT
                              !.components = SortComponents(Head(cars).components, descending)]))

\* self.cars after get_sorted_collection, and whether it raised
GetSortedCollection(cars, descending) == SortedCollectionFrom(cars, descending, <<>>)

RECURSIVE AddComponents(_, _, _)
\* the inner for loop: components_with_cars[component].append(car)
AddComponents(components, car, d) ==
    IF components = <<>> THEN d
    ELSE LET c == Head(components).v
         IN  AddComponents(Tail(components), car,
                 DictSet(d, c, Append(IF DictHas(d, c) THEN DictGet(d, c) ELSE <<>>, car)))

RECURSIVE ComponentsFrom(_, _)
ComponentsFrom(cars, d) ==
    IF cars = <<>> THEN d
    ELSE ComponentsFrom(Tail(cars),
                        AddComponents(Elements(Head(cars).components), Head(cars), d))

GetComponetsWithCar(cars, descending) ==
    LET d == ComponentsFrom(cars, <<>>)
    IN  SortKeyed([i \in 1..Len(d) |-> [key |-> JInt(Len(d[i].v)), item |-> d[i]]],
                  descending)

GetCarsPriceBetween(cars, price_from, price_to) ==
    IF price_from > price_to THEN Raised("ValueError")
    ELSE LET within == SelectSeq(cars, LAMBDA car :
                           price_from <= car.price.v /\ car.price.v <= price_to)
         IN  Returned(SortKeyed([i \in 1..Len(within) |->
                                    [key |-> within[i].model, item |-> within[i]]], FALSE))

(***************************************************************************)
(* EventService.                                                           *)
(***************************************************************************)
\* a variant that writes the names stripped
SortedDataStripped(events) ==
    [i \in 1..Len(events) |->
        Strip(events[i].event_name) \o <<";">> \o StrFTime(events[i].date)]

\* the lines save_sorted_events hands to the writer
SortedData(events) ==
    [i \in 1..Len(events) |->
        events[i].event_name \o <<";">> \o StrFTime(events[i].date)]

\* a variant that returns only the first of the dates with the maximum count
GetMostCommonDateFirstOnly(events) ==
    IF events = <<>> THEN Raised("ValueError")
    ELSE LET date_counts == CountFrom([i \in 1..Len(events) |-> StrFTime(events[i].date)], <<>>)
             max_count == MaxOf([i \in 1..Len(date_counts) |-> date_counts[i].v])
             most == SelectSeq(date_counts, LAMBDA item : item.v = max_count)
         IN  Returned([dates |-> <<most[1].k>>, count |-> max_count])

GetMostCommonDate(events) ==
    IF events = <<>> THEN Raised("ValueError")
    ELSE LET date_counts == CountFrom([i \in 1..Len(events) |-> StrFTime(events[i].date)], <<>>)
             max_count == MaxOf([i \in 1..Len(date_counts) |-> date_counts[i].v])
             most == SelectSeq(date_counts, LAMBDA item : item.v = max_count)
         IN  Returned([dates |-> [i \in 1..Len(most) |-> most[i].k], count |-> max_count])


(***************************************************************************)
(* Inputs.                                                                 *)
(***************************************************************************)
Rec(model, price, color, mileage, components) ==
    [model |-> model, price |-> price, color |-> color, mileage |-> mileage,
     components |-> components]

CompX == JStr(<<"X">>)
CompY == JStr(<<"Y">>)

\* the records the files of several records are made of
CarRecords ==
    { Rec(JStr(<<"A">>), JInt(100), JStr(RED), JInt(10), JList(<<CompY, CompX>>)),
      Rec(JStr(<<"A">>), JInt(200), JStr(BLACK), JInt(20), JList(<<CompX>>)),
      Rec(JStr(<<"A">>), JInt(200), JStr(RED), JInt(30), JList(<<CompX, CompY>>)),
      Rec(JStr(<<"B">>), JInt(100), JStr(BLACK), JInt(10), JList(<<CompY, CompY, CompX>>)),
      Rec(JStr(<<"A">>), JInt(0), JStr(RED), JInt(10), JList(<<CompX>>)),
      Rec(Absent, Absent, JStr(RED), JInt(10), JList(<<CompX>>)) }

\* every combination of field values, for the files of one record
AllCarRecords ==
    { Rec(m, p, c, g, k) :
        m \in {Absent, JStr(<<"A", " ", "B">>), JStr(<<"a">>), JStr(<<>>), JInt(5)},
        p \in {Absent, JInt(100), JInt(0), JStr(<<"x">>)},
        c \in {Absent, JStr(RED), JStr(<<"R">>), JList(<<>>)},
        g \in {Absent, JInt(10), JInt(0), JStr(<<"x">>)},
        k \in {Absent, JList(<<CompY, CompX>>), JList(<<JStr(<<"a">>)>>),
               JList(<<CompX, JInt(1)>>), JInt(3), JStr(<<"Y", "X">>)} }

\* the lines of the events file, before the reader strips them
EventLines ==
    { <<"A", ";", "0", "2">>,
      <<"B", ";", "2", " ">>,
      <<"A", " ", ";", "0", "3">>,
      <<"A", ";", " ", "0", "2">>,
      <<"A", ",", "0", "2">>,
      <<"#", ";", "x">> }

RECURSIVE SeqsUpTo(_, _)
\* the sequences over S of length at most n
SeqsUpTo(S, n) ==
    IF n = 0 THEN {<<>>}
    ELSE LET shorter == SeqsUpTo(S, n - 1)
         IN  shorter \cup {Append(q, x) : q \in {r \in shorter : Len(r) = n - 1}, x \in S}

NoCur == [raised |-> FALSE, exc |-> "", valid |-> FALSE, errors |-> <<>>]
NoExc == [type |-> "", during |-> "", errors |-> <<>>]
NoResult == [op |-> "", args |-> <<>>, raised |-> FALSE, value |-> <<>>]
NotSaved == [done |-> FALSE, events |-> <<>>]

\* one entry of outcome: validate's verdict on the record, and "appended" | "skipped" | "raised"
Left(verdict, how) ==
    [judged |-> TRUE, valid |-> verdict.valid, errors |-> verdict.errors, how |-> how]
\* validate itself raised on the record
Crashed == [judged |-> FALSE, valid |-> FALSE, errors |-> <<>>, how |-> "raised"]

Init ==
    /\ prog \in {"cars", "events"}
    /\ stop \in BOOLEAN
    /\ IF prog = "cars"
       THEN /\ source \in SeqsUpTo(CarRecords, MaxRecords) \cup {<<r>> : r \in AllCarRecords}
            /\ sep = DefaultSeparator
            /\ allowPast = FALSE
       ELSE /\ \E lines \in SeqsUpTo(EventLines, MaxRecords) : source = TextRead(lines)
            /\ sep \in {";", ","}
            /\ allowPast \in BOOLEAN
    /\ now = 2
    /\ idx = 1
    /\ pc = "iter"
    /\ cur = NoCur
    /\ acc = <<>>
    /\ held = <<>>
    /\ log = <<>>
    /\ exc = NoExc
    /\ outcome = <<>>
    /\ result = NoResult
    /\ written = <<>>
    /\ saved = NotSaved
    /\ gen = 1

(***************************************************************************)
(* CarsFileReader.get_cars, one step of the for loop at a time.            *)
(***************************************************************************)
\* is_valid, errors = self.car_validator.validate(car)
CarsValidate ==
    /\ prog = "cars" /\ pc = "iter" /\ idx <= Len(source)
    /\ LET r == CarValidate(source[idx])
       IN  IF r.raised
           THEN /\ pc' = "raised"
                /\ exc' = [type |-> r.exc, during |-> "validate", errors |-> <<>>]
                /\ outcome' = Append(outcome, Crashed)
                /\ cur' = cur
           ELSE /\ pc' = "checked"
                /\ cur' = r
                /\ UNCHANGED <<exc, outcome>>
    /\ UNCHANGED <<prog, stop, sep, allowPast, now, source, idx, acc, held, log, result,
                   written, saved, gen>>

\* for field_name, error in errors.items(): logging.warning(...)
CarsLog ==
    /\ prog = "cars" /\ pc = "checked" /\ ~cur.valid
    /\ log' = log \o [i \in 1..Len(cur.errors) |->
                         [gen |-> gen, rec |-> idx, field |-> cur.errors[i].field,
                          msg |-> cur.errors[i].msg]]
    /\ pc' = "logged"
    /\ UNCHANGED <<prog, stop, sep, allowPast, now, source, idx, cur, acc, held, exc, outcome,
                   result, written, saved, gen>>

\* raise ValueError(f'Validation error: {errors}')
CarsRaise ==
    /\ prog = "cars" /\ pc = "logged" /\ stop
    /\ pc' = "raised"
    /\ exc' = [type |-> "ValueError", during |-> "validation", errors |-> cur.errors]
    /\ outcome' = Append(outcome, Left(cur, "raised"))
    /\ UNCHANGED <<prog, stop, sep, allowPast, now, source, idx, cur, acc, held, log, result,
                   written, saved, gen>>

\* if is_valid: is false, on to the next record
CarsSkip ==
    /\ prog = "cars" /\ pc = "logged" /\ ~stop
    /\ pc' = "iter"
    /\ idx' = idx + 1
    /\ outcome' = Append(outcome, Left(cur, "skipped"))
    /\ UNCHANGED <<prog, stop, sep, allowPast, now, source, cur, acc, held, log, exc, result,
                   written, saved, gen>>

\* whether the loader converts the record it has just validated
CarsConverts(is_valid) == is_valid

\* cars.append(Car.from_dict(car))
CarsAppend ==
    /\ prog = "cars" /\ pc = "checked" /\ CarsConverts(cur.valid)
    /\ LET c == CarFromDict(source[idx])
       IN  IF c.raised
           THEN /\ pc' = "raised"
                /\ exc' = [type |-> c.exc, during |-> "convert", errors |-> <<>>]
                /\ outcome' = Append(outcome, Left(cur, "raised"))
                /\ UNCHANGED <<acc, idx>>
           ELSE /\ pc' = "iter"
                /\ acc' = Append(acc, c.car)
                /\ idx' = idx + 1
                /\ outcome' = Append(outcome, Left(cur, "appended"))
                /\ exc' = exc
    /\ UNCHANGED <<prog, stop, sep, allowPast, now, source, cur, held, log, result,
                   written, saved, gen>>

\* return cars, and CarsService(cars=cars)
CarsReturn ==
    /\ prog = "cars" /\ pc = "iter" /\ idx > Len(source)
    /\ pc' = "loaded"
    /\ held' = acc
    /\ UNCHANGED <<prog, stop, sep, allowPast, now, source, idx, cur, acc, log, exc, outcome,
                   result, written, saved, gen>>


(***************************************************************************)
(* EventsFileReader.get_events, one step of the for loop at a time.        *)
(***************************************************************************)
\* is_valid, errors = self.event_validator.validate(event)
EventsValidate ==
    /\ prog = "events" /\ pc = "iter" /\ idx <= Len(source)
    /\ cur' = EventValidate(source[idx], sep, allowPast, now)
    /\ pc' = "checked"
    /\ UNCHANGED <<prog, stop, sep, allowPast, now, source, idx, acc, held, log, exc, outcome,
                   result, written, saved, gen>>

\* events.append(Event.from_str(event, self.event_validator.date_format))
EventsAppend ==
    /\ prog = "events" /\ pc = "checked" /\ cur.valid
    /\ LET e == EventFromStr(source[idx], DefaultSeparator)
       IN  IF e.raised
           THEN /\ pc' = "raised"
                /\ exc' = [type |-> e.exc, during |-> "convert", errors |-> <<>>]
                /\ outcome' = Append(outcome, Left(cur, "raised"))
                /\ UNCHANGED <<acc, idx>>
           ELSE /\ pc' = "iter"
                /\ acc' = Append(acc, e.event)
                /\ idx' = idx + 1
                /\ outcome' = Append(outcome, Left(cur, "appended"))
                /\ exc' = exc
    /\ UNCHANGED <<prog, stop, sep, allowPast, now, source, cur, held, log, result,
                   written, saved, gen>>

\* elif self.stop_loading_if_error: raise ValueError(f'Validation error: {errors}')
EventsRaise ==
    /\ prog = "events" /\ pc = "checked" /\ ~cur.valid /\ stop
    /\ pc' = "raised"
    /\ exc' = [type |-> "ValueError", during |-> "validation", errors |-> cur.errors]
    /\ outcome' = Append(outcome, Left(cur, "raised"))
    /\ UNCHANGED <<prog, stop, sep, allowPast, now, source, idx, cur, acc, held, log, result,
                   written, saved, gen>>

\* neither branch is taken, on to the next line
EventsSkip ==
    /\ prog = "events" /\ pc = "checked" /\ ~cur.valid /\ ~stop
    /\ pc' = "iter"
    /\ idx' = idx + 1
    /\ outcome' = Append(outcome, Left(cur, "skipped"))
    /\ UNCHANGED <<prog, stop, sep, allowPast, now, source, cur, acc, held, log, exc, result,
                   written, saved, gen>>

\* return sorted(events, key=lambda event: event.date), and EventService(events, ...)
EventsReturn ==
    /\ prog = "events" /\ pc = "iter" /\ idx > Len(source)
    /\ pc' = "loaded"
    /\ held' = SortedByDate(acc)
    /\ UNCHANGED <<prog, stop, sep, allowPast, now, source, idx, cur, acc, log, exc, outcome,
                   result, written, saved, gen>>

\* time passes; only EventValidator.validate reads the clock
Tick ==
    /\ prog = "events" /\ now < MaxNow
    /\ now' = now + 1
    /\ UNCHANGED <<prog, stop, sep, allowPast, source, idx, pc, cur, acc, held, log, exc,
                   outcome, result, written, saved, gen>>

(***************************************************************************)
(* The operations of CarsService on the held collection.                   *)
(***************************************************************************)
CarsLoaded == prog = "cars" /\ pc = "loaded"

\* everything but the held collection and the last result
Rest == <<prog, stop, sep, allowPast, now, source, idx, pc, cur, acc, log, exc, outcome,
          written, saved, gen>>

\* the value of an optional last parameter: as passed, or its default
Arg(args, n, default) == IF Len(args) >= n THEN args[n] ELSE default

\* a variant that sorts self.cars in place
SortedByInPlace ==
    /\ CarsLoaded
    /\ \E args \in {<<"model">>, <<"color">>, <<"price", TRUE>>, <<"mileage", TRUE>>} :
           /\ held' = GetSortedCars(held, args[1], Arg(args, 2, FALSE))
           /\ result' = Call("get_sorted_cars", args, Returned(held'))
    /\ UNCHANGED Rest

SortedBy ==
    /\ CarsLoaded
    /\ \E args \in {<<"model">>, <<"color">>, <<"price", TRUE>>, <<"mileage", TRUE>>} :
           result' = Call("get_sorted_cars", args,
                          Returned(GetSortedCars(held, args[1], Arg(args, 2, FALSE))))
    /\ UNCHANGED <<held, Rest>>

MileageGreaterThan ==
    /\ CarsLoaded
    /\ \E mileage \in {JInt(-1), JInt(10), JStr(<<"x">>)} :
           result' = Call("get_cars_mileage_than", <<mileage>>,
                          GetCarsMileageThan(held, mileage))
    /\ UNCHANGED <<held, Rest>>

CountByColor ==
    /\ CarsLoaded
    /\ \E args \in {<<>>, <<FALSE>>} :
           result' = Call("get_count_cars_by_color", args,
                          Returned(GetCountCarsByColor(held, Arg(args, 1, TRUE))))
    /\ UNCHANGED <<held, Rest>>

MostExpensiveByModel ==
    /\ CarsLoaded
    /\ \E args \in {<<>>, <<FALSE>>} :
           result' = Call("get_model_cars_most_expensive", args,
                          Returned(GetModelCarsMostExpensive(held, Arg(args, 1, TRUE))))
    /\ UNCHANGED <<held, Rest>>

PriceMileageStatistics ==
    /\ CarsLoaded
    /\ result' = Call("get_statistic_price_mileage", <<>>,
                      Returned(GetStatisticPriceMileage(held)))
    /\ UNCHANGED <<held, Rest>>

MostExpensive ==
    /\ CarsLoaded
    /\ result' = Call("get_cars_most_expensive", <<>>, GetCarsMostExpensive(held))
    /\ UNCHANGED <<held, Rest>>

\* mutates every car's components and returns self.cars
SortedComponents ==
    /\ CarsLoaded
    /\ \E args \in {<<>>, <<TRUE>>} :
           LET r == GetSortedCollection(held, Arg(args, 1, FALSE))
           IN  /\ held' = r.cars
               /\ result' = Call("get_sorted_collection", args,
                                 IF r.raised THEN Raised("AttributeError")
                                 ELSE Returned(r.cars))
    /\ UNCHANGED Rest

CarsByComponent ==
    /\ CarsLoaded
    /\ \E args \in {<<>>, <<TRUE>>} :
           result' = Call("get_componets_with_car", args,
                          Returned(GetComponetsWithCar(held, Arg(args, 1, FALSE))))
    /\ UNCHANGED <<held, Rest>>

PriceBetween ==
    /\ CarsLoaded
    /\ \E range \in {<<100, 100>>, <<200, 100>>} :
           result' = Call("get_cars_price_between", range,
                          GetCarsPriceBetween(held, range[1], range[2]))
    /\ UNCHANGED <<held, Rest>>

(***************************************************************************)
(* The operations of EventService, and a second load of what was written.  *)
(***************************************************************************)
EventsLoaded == prog = "events" /\ pc = "loaded"

SaveSortedEvents ==
    /\ EventsLoaded /\ gen = 1
    /\ written' = SortedData(held)
    /\ saved' = [done |-> TRUE, events |-> held]
    /\ result' = Call("save_sorted_events", <<>>, Returned(<<>>))
    /\ UNCHANGED <<prog, stop, sep, allowPast, now, source, idx, pc, cur, acc, held, log, exc,
                   outcome, gen>>

MostCommonDate ==
    /\ EventsLoaded
    /\ result' = Call("get_most_common_date", <<>>, GetMostCommonDate(held))
    /\ UNCHANGED <<held, Rest>>

\* get_events over the written file, by the same reader
Reload ==
    /\ EventsLoaded /\ gen = 1 /\ saved.done
    /\ gen' = 2
    /\ source' = TextRead(written)
    /\ idx' = 1
    /\ pc' = "iter"
    /\ cur' = NoCur
    /\ acc' = <<>>
    /\ held' = <<>>
    /\ outcome' = <<>>
    /\ result' = NoResult
    /\ UNCHANGED <<prog, stop, sep, allowPast, now, log, exc, written, saved>>

Next ==
    \/ CarsValidate \/ CarsLog \/ CarsRaise \/ CarsSkip \/ CarsAppend \/ CarsReturn
    \/ EventsValidate \/ EventsAppend \/ EventsRaise \/ EventsSkip \/ EventsReturn
    \/ Tick
    \/ SortedBy \/ MileageGreaterThan \/ CountByColor \/ MostExpensiveByModel
    \/ PriceMileageStatistics \/ MostExpensive \/ SortedComponents \/ CarsByComponent
    \/ PriceBetween
    \/ SaveSortedEvents \/ MostCommonDate \/ Reload

Spec == Init /\ [][Next]_vars


(***************************************************************************)
(* The field rules of a vehicle record, as the specification states them.  *)
(***************************************************************************)
Fields == {"model", "price", "color", "mileage", "components"}

RuleViolated(data, field) ==
    CASE field = "model" ->
            ~(Has(data, "model") /\ data.model.t = "str" /\ MatchUpperWs(data.model.v))
      [] field = "price" ->
            ~(Has(data, "price") /\ data.price.t = "int" /\ data.price.v > 0)
      [] field = "color" ->
            ~(Has(data, "color") /\ data.color.t = "str" /\ data.color.v \in CarColor)
      [] field = "mileage" ->
            ~(Has(data, "mileage") /\ data.mileage.t = "int" /\ data.mileage.v > 0)
      [] field = "components" ->
            ~(/\ Has(data, "components")
              /\ data.components.t \in {"list", "str"}
              /\ \A i \in 1..Len(Elements(data.components)) :
                     /\ Elements(data.components)[i].t = "str"
                     /\ MatchUpperWs(Elements(data.components)[i].v))

ViolatedRules(data) == {f \in Fields : RuleViolated(data, f)}

\* the loop has validated the record at idx and not moved on
AtValidated ==
    \/ pc \in {"checked", "logged"}
    \/ pc = "raised" /\ exc.during \in {"validate", "validation"}

LoadFinished == pc \in {"loaded", "raised"}

(***************************************************************************)
(* C1.  validate is total for both validators: for every raw record it     *)
(* returns an (is_valid, errors) pair and never raises.                    *)
(***************************************************************************)
C1_ValidateNeverRaises == ~(pc = "raised" /\ exc.during = "validate")

(***************************************************************************)
(* C2.  The vehicle validator evaluates the five field rules               *)
(* independently: validate returns, the keys of the errors mapping are     *)
(* exactly the fields whose rule is violated, and is_valid holds iff the   *)
(* mapping is empty.                                                       *)
(***************************************************************************)
C2_ErrorKeysAreViolatedRules ==
    (prog = "cars" /\ AtValidated) =>
        /\ exc.during # "validate"
        /\ Keys(cur.errors) = ViolatedRules(source[idx])
        /\ cur.valid = (cur.errors = <<>>)

\* what C2 says of the validations that return
ReturnedKeysAreViolatedRules ==
    (prog = "cars" /\ AtValidated /\ exc.during # "validate") =>
        /\ Keys(cur.errors) = ViolatedRules(source[idx])
        /\ cur.valid = (cur.errors = <<>>)

(***************************************************************************)
(* C3.  Loader failure policy, both loaders.  With stop_loading_if_error,  *)
(* a source holding an invalid record ends in the validation error that    *)
(* carries the errors of its first invalid record, nothing after that      *)
(* record is validated or converted and no collection is returned.         *)
(* Without it, the collection returned holds exactly the entities of the   *)
(* valid records, one each, in source order.                               *)
(***************************************************************************)
\* record i fails validation: by validate's verdict when the loop reached it
InvalidAt(i) ==
    IF i <= Len(outcome) THEN ~outcome[i].valid
    ELSE IF prog = "cars" THEN ViolatedRules(source[i]) # {}
    ELSE ~EventValidate(source[i], sep, allowPast, now).valid

FirstInvalid == CHOOSE i \in 1..Len(source) : InvalidAt(i) /\ \A j \in 1..(i - 1) : ~InvalidAt(j)

\* the factory's entity for record i
EntityOf(i) ==
    IF prog = "cars" THEN CarFromDict(source[i]).car
    ELSE EventFromStr(source[i], DefaultSeparator).event

EntitiesOfValid ==
    LET valid == SelectSeq([i \in 1..Len(source) |-> i], LAMBDA i : outcome[i].valid)
    IN  [k \in 1..Len(valid) |-> EntityOf(valid[k])]

C3_LoaderFailurePolicy ==
    LoadFinished =>
        IF stop
        THEN (\E i \in 1..Len(source) : InvalidAt(i)) =>
                 /\ pc = "raised"
                 /\ exc.type = "ValueError" /\ exc.during = "validation"
                 /\ Len(outcome) = FirstInvalid
                 /\ outcome[FirstInvalid].judged
                 /\ exc.errors = outcome[FirstInvalid].errors
                 /\ held = <<>>
        ELSE pc = "loaded" =>
                 /\ Len(outcome) = Len(source)
                 /\ acc = EntitiesOfValid

(***************************************************************************)
(* C4.  In skip mode no load fails on an individual record: every record   *)
(* the validator accepts is converted by the entity factory without error. *)
(***************************************************************************)
C4_SkipModeConvertsAccepted == ~stop => ~(pc = "raised" /\ exc.during = "convert")

(***************************************************************************)
(* C5.  Both loaders, both modes: a record that fails validation is        *)
(* escalated or skipped only after a diagnostic naming each failing field  *)
(* with its messages has been logged.                                      *)
(***************************************************************************)
Logged(i, error) ==
    \E l \in 1..Len(log) :
        log[l] = [gen |-> gen, rec |-> i, field |-> error.field, msg |-> error.msg]

C5_FailuresLoggedFirst ==
    \A i \in 1..Len(outcome) :
        (outcome[i].judged /\ ~outcome[i].valid /\ outcome[i].how \in {"skipped", "raised"}) =>
            \A k \in 1..Len(outcome[i].errors) : Logged(i, outcome[i].errors[k])

\* what C5 says of the vehicle loader
CarsFailuresLoggedFirst == prog = "cars" => C5_FailuresLoggedFirst

(***************************************************************************)
(* C6.  Round trip for events: save_sorted_events of a loaded collection,  *)
(* then a load of the written lines by the same reader (same date format,  *)
(* same separator), returns the same (name, date) entities in the same     *)
(* order.                                                                  *)
(***************************************************************************)
Reloaded == prog = "events" /\ gen = 2 /\ LoadFinished

NoneInThePast ==
    allowPast \/ \A i \in 1..Len(saved.events) : ~(saved.events[i].date < now)

OfDate(events, d) == SelectSeq(events, LAMBDA e : e.date = d)

C7_SortedStable ==
    EventsLoaded =>
        /\ Len(held) = Len(acc)
        /\ \A i, j \in 1..Len(held) : i < j => held[i].date <= held[j].date
        /\ \A d \in {acc[i].date : i \in 1..Len(acc)} \cup {held[i].date : i \in 1..Len(held)} :
               OfDate(held, d) = OfDate(acc, d)

\* the sort moved an event, and two different events of one date were returned
C7_Witness ==
    /\ EventsLoaded
    /\ held # acc
    /\ \E i, j \in 1..Len(held) : i < j /\ held[i].date = held[j].date /\ held[i] # held[j]

(***************************************************************************)
(* C8.  Vehicle entity invariant: in either mode, during the load and      *)
(* after any sequence of service operations, every vehicle has a model of  *)
(* uppercase letters/whitespace, price > 0, a color of the enumeration,    *)
(* mileage > 0 and components of uppercase letters/whitespace; no vehicle  *)
(* is constructed from a record that fails a rule.                         *)
(***************************************************************************)
CarOk(car) ==
    /\ car.model.t = "str" /\ MatchUpperWs(car.model.v)
    /\ car.price.t = "int" /\ car.price.v > 0
    /\ car.color \in CarColor
    /\ car.mileage.t = "int" /\ car.mileage.v > 0
    /\ car.components.t \in {"list", "str"}
    /\ \A i \in 1..Len(Elements(car.components)) :
           /\ Elements(car.components)[i].t = "str"
           /\ MatchUpperWs(Elements(car.components)[i].v)

Count(seq, x) == Cardinality({i \in 1..Len(seq) : seq[i] = x})

SameButComponentOrder(before, after) ==
    /\ Len(after) = Len(before)
    /\ \A i \in 1..Len(before) :
           /\ [after[i] EXCEPT !.components = JList(<<>>)]
                  = [before[i] EXCEPT !.components = JList(<<>>)]
           /\ after[i].components.t = before[i].components.t
           /\ Len(after[i].components.v) = Len(before[i].components.v)
           /\ \A k \in 1..Len(before[i].components.v) :
                  Count(after[i].components.v, before[i].components.v[k])
                      = Count(before[i].components.v, before[i].components.v[k])

C9_Frame ==
    [][CarsLoaded =>
          \/ held' = held
          \/ result'.op = "get_sorted_collection" /\ SameButComponentOrder(held, held')]_vars

\* a components sort has reordered the components of a held vehicle
C9_Witness ==
    /\ CarsLoaded
    /\ result.op = "get_sorted_collection"
    /\ held # acc
    /\ Len(held) >= 2

\* an operation other than the components sort has raised on a held collection
C9_WitnessRaised == CarsLoaded /\ result.raised /\ Len(held) >= 2

(***************************************************************************)
(* C10.  get_model_cars_most_expensive: one key per model of the           *)
(* collection; a model's value is the vehicles of that model whose price   *)
(* is the model's maximum, all of them, in collection order; keys ordered  *)
(* by model name, descending unless descending = False is passed.          *)
(***************************************************************************)
MaxPriceOf(cars, model) ==
    CHOOSE p \in {cars[i].price.v : i \in {j \in 1..Len(cars) : cars[j].model.v = model}} :
        \A i \in 1..Len(cars) : cars[i].model.v = model => cars[i].price.v <= p

C10_WitnessTie ==
    /\ prog = "cars" /\ result.op = "get_model_cars_most_expensive" /\ result.args = <<>>
    /\ Len(held) = 3 /\ Len(result.value) = 1 /\ Len(result.value[1].v) = 2

(***************************************************************************)
(* The color counts.                                                       *)
(***************************************************************************)
\* the position of the first vehicle of that color in the collection
FirstOfColor(cars, color) ==
    CHOOSE i \in 1..Len(cars) :
        cars[i].color = color /\ \A j \in 1..(i - 1) : cars[j].color # color

ColorsOf(cars) == [i \in 1..Len(cars) |-> cars[i].color]

\* C11: the mapping get_count_cars_by_color returns has counts that sum to
\* the collection size, maps every color name of the collection to its
\* number of occurrences, is ordered by count descending by default and
\* ascending when descending = false, and lists colors of equal count in
\* the order of their first occurrence in the collection.
C11_CountByColor ==
    (prog = "cars" /\ result.op = "get_count_cars_by_color") =>
        LET d == result.value
            descending == Arg(result.args, 1, TRUE)
        IN  /\ ~result.raised
            /\ SumSeq([i \in 1..Len(d) |-> d[i].v]) = Len(held)
            /\ \A i, j \in 1..Len(d) : i # j => d[i].k # d[j].k
            /\ \A n \in 1..Len(held) :
                   \E i \in 1..Len(d) :
                       d[i].k = held[n].color /\ d[i].v = Count(ColorsOf(held), held[n].color)
            /\ \A i, j \in 1..Len(d) :
                   i < j => IF descending THEN d[i].v >= d[j].v ELSE d[i].v <= d[j].v
            /\ \A i, j \in 1..Len(d) :
                   (i < j /\ d[i].v = d[j].v) =>
                       FirstOfColor(held, d[i].k) < FirstOfColor(held, d[j].k)

\* the default call on three vehicles of two colors
C11_Witness ==
    /\ prog = "cars" /\ result.op = "get_count_cars_by_color" /\ result.args = <<>>
    /\ Len(held) = 3 /\ Len(result.value) = 2
    /\ result.value[1].v = 2 /\ result.value[2].v = 1
    /\ held[1].color = result.value[2].k

\* the default call on two colors of equal count
C11_WitnessTie ==
    /\ prog = "cars" /\ result.op = "get_count_cars_by_color" /\ result.args = <<>>
    /\ Len(held) = 2 /\ Len(result.value) = 2
    /\ result.value[1].v = result.value[2].v

\* the ascending call on three vehicles of two colors
C11_WitnessAscending ==
    /\ prog = "cars" /\ result.op = "get_count_cars_by_color" /\ result.args = <<FALSE>>
    /\ Len(held) = 3 /\ Len(result.value) = 2
    /\ result.value[1].v = 1 /\ result.value[2].v = 2

(***************************************************************************)
(* The most common date.                                                   *)
(***************************************************************************)
\* the dates of the events, each formatted by the date format
FormattedDates(events) == [i \in 1..Len(events) |-> StrFTime(events[i].date)]

\* C12: get_most_common_date fails with an error and returns nothing on an
\* empty collection; on a non-empty one it returns (dates, n) where n >= 1
\* is the maximum number of events sharing one formatted date and dates
\* lists, each once, exactly the formatted dates that occur n times.
C12_MostCommonDate ==
    (prog = "events" /\ result.op = "get_most_common_date") =>
        LET formatted == FormattedDates(held)
            occurring == {formatted[i] : i \in 1..Len(formatted)}
        IN  IF held = <<>>
            THEN result.raised /\ result.value = "ValueError"
            ELSE LET dates == result.value.dates
                     n == result.value.count
                 IN  /\ ~result.raised
                     /\ n >= 1
                     /\ \A s \in occurring : Count(formatted, s) <= n
                     /\ \E s \in occurring : Count(formatted, s) = n
                     /\ {dates[i] : i \in 1..Len(dates)}
                            = {s \in occurring : Count(formatted, s) = n}
                     /\ \A i, j \in 1..Len(dates) : i # j => dates[i] # dates[j]

\* three events, two of them on one date: that date alone, with count 2
C12_Witness ==
    /\ prog = "events" /\ result.op = "get_most_common_date"
    /\ Len(held) = 3 /\ ~result.raised
    /\ result.value.count = 2 /\ Len(result.value.dates) = 1

\* two events on two dates: both dates, with count 1
C12_WitnessTie ==
    /\ prog = "events" /\ result.op = "get_most_common_date"
    /\ Len(held) = 2 /\ ~result.raised
    /\ result.value.count = 1 /\ Len(result.value.dates) = 2

\* the call on an empty collection
C12_WitnessEmpty ==
    /\ prog = "events" /\ result.op = "get_most_common_date"
    /\ held = <<>> /\ result.raised

=============================================================================
